---- MODULE Spec2Model ----
(***************************************************************************)
(* A model of semstr's DependencyConverter (semstr/conversion/dep.py):     *)
(* the dependency graph (Node, Edge and their adjacency lists), head       *)
(* linking, preprocessing, cycle breaking, topological sorting, head       *)
(* finding and multi-word detection.                                       *)
(*                                                                         *)
(* A Node of a node list is identified by its position (Node.__eq__ is     *)
(* (position, span), and the nodes of one list have distinct positions).   *)
(* An Edge object is identified by its index in the sequence `edges`,      *)
(* which grows with every Edge(...) construction.                          *)
(***************************************************************************)
EXTENDS Integers, Sequences, FiniteSets, TLC

\* ---------------------------------------------------------------- bounds
NumTerminals == 3      \* terminals of the passage given to to_format
MaxEdges == 3          \* Edge objects that incoming_edges builds for one passage
NumTokens == 2         \* token lines of the sentence that generate_graphs reads
MaxDeps == 3           \* Edge objects that the lines of one sentence hold
MaxChildren == 2       \* outgoing edges of the unit given to find_head_child
NumWords == 4          \* terminals of the passage whose multi-word texts are read
NumSentences == 2      \* sentences of the lines that generate_graphs reads
NumParagraphs == 2     \* paragraphs of one sentence

\* ------------------------------------------------------- program constants
None == -2             \* Python's None for a node reference or a level
ROOT == "ROOT"
TOP == "TOP"
HEAD == "head"
ORPHAN == "orphan"
Terminal == "Terminal" \* EdgeTags.Terminal
Linker == "L"          \* EdgeTags.Linker
Center == "C"          \* EdgeTags.Center
Elaborator == "E"      \* EdgeTags.Elaborator
root == "root"         \* self.ROOT.lower()
NoneStr == "None"      \* Python's None where the other values are strings

\* the class attribute TAG_PRIORITY, by the values of ucca's EdgeTags
TAG_PRIORITY ==
    <<"C", "N", "H", "P", "S", "A", "D", "T", "Q", "E", "R", "F", "L", "LR", "LA", "G",
      "Terminal", "U">>

Positions == 0..(IF NumTokens > NumTerminals THEN NumTokens ELSE NumTerminals)

VARIABLES
    cfg,        \* the converter's settings: [tree, is_ucca, test]
    pc,         \* where the running operation stands
    dep_nodes,  \* the node list, as the sequence of the nodes' positions
    edges,      \* every Edge object constructed so far: its fields
    incoming,   \* Node.incoming: position -> sequence of edge identities
    outgoing,   \* Node.outgoing: position -> sequence of edge identities
    entry,      \* the graph as it was when preprocess was entered
    terminals,  \* the number of terminals of the passage given to to_format
    iterations, \* break_cycles: the iterations of its loop that removed an edge
    level,      \* Node.level: position -> level or None
    heads_visited, \* Node.heads_visited: position -> set of positions
    remaining,  \* _topological_sort: its work list
    sorted,     \* _topological_sort: the list it returned
    sort_steps, \* _topological_sort: the iterations of its loop so far
    tag_priority, \* the tag_priority argument of the converter's constructor
    unit,       \* find_head_child: the outgoing edges of the unit, in order
    head_child, \* find_head_child: the child returned (its index in unit)
    extra,      \* per terminal, its multi-word text or None
    multi_words, \* the shared cell multi_words[0]: a multi-word Node or None
    mw_nodes,   \* the multi-word Nodes constructed so far: their fields
    parent_mw,  \* per terminal read, what parent_multi_word returned
    is_head,    \* Node.is_head: position -> BOOLEAN
    linked,     \* the call of _link_heads just made: the graph before and after it
    split,      \* generate_graphs: its split argument
    paragraph,  \* generate_graphs: paragraph
    linked_ok,  \* per sentence whose _graph() was called, whether it returned
    yielded,    \* the sentences whose graph generate_graphs has yielded, in order
    removed,    \* break_cycles: the edge its last iteration removed, and from what
    is_punct,   \* is_punct(dep_node): position -> BOOLEAN
    flip_i,     \* create_non_terminals: the place in graph.nodes of its first loop
    last_flip   \* create_non_terminals: the punctuation node flipped last

graphVars == <<dep_nodes, edges, incoming, outgoing>>
sortVars == <<level, heads_visited, remaining, sorted, sort_steps>>
headVars == <<tag_priority, unit, head_child>>
wordVars == <<extra, multi_words, mw_nodes, parent_mw>>
splitVars == <<split, paragraph, linked_ok, yielded>>
flipVars == <<is_punct, flip_i, last_flip>>
restVars == <<is_head, linked, splitVars, removed, flipVars>>
vars == <<cfg, pc, dep_nodes, edges, incoming, outgoing, entry, terminals,
          iterations, level, heads_visited, remaining, sorted, sort_steps,
          tag_priority, unit, head_child, extra, multi_words, mw_nodes, parent_mw,
          is_head, linked, split, paragraph, linked_ok, yielded, removed,
          is_punct, flip_i, last_flip>>

\* ------------------------------------------------------------ sequences
Range(s) == {s[i] : i \in 1..Len(s)}

RECURSIVE Perms(_)
\* every ordering of a finite set: the iteration order of a Python set
Perms(S) ==
    IF S = {} THEN {<<>>}
    ELSE UNION {{<<x>> \o p : p \in Perms(S \ {x})} : x \in S}

RECURSIVE SmallSubsets(_, _)
\* the subsets of S with at most k elements
SmallSubsets(S, k) ==
    IF k = 0 THEN {{}}
    ELSE LET T == SmallSubsets(S, k - 1) IN T \cup {t \cup {x} : t \in T, x \in S}

RemoveAt(s, i) == SubSeq(s, 1, i - 1) \o SubSeq(s, i + 1, Len(s))

\* ------------------------------------------------------------ Edge, Node
\* The graph a pure operator works on: G.edges, G.incoming, G.outgoing.
Graph == [edges |-> edges, incoming |-> incoming, outgoing |-> outgoing]

EmptyAdjacency == [p \in Positions |-> <<>>]

\* the parts of the state that an operation not under way leaves as constructed
NoSort ==
    /\ iterations = 0
    /\ level = [p \in Positions |-> None]
    /\ heads_visited = [p \in Positions |-> {}]
    /\ remaining = <<>>
    /\ sorted = <<>>
    /\ sort_steps = 0

NoUnit ==
    /\ tag_priority = <<>>
    /\ unit = <<>>
    /\ head_child = None

NoWords ==
    /\ extra = <<>>
    /\ multi_words = None
    /\ mw_nodes = <<>>
    /\ parent_mw = <<>>

NoLink ==
    /\ is_head = [p \in Positions |-> TRUE]
    /\ linked = [called |-> FALSE]

NoFlip ==
    /\ is_punct = [p \in Positions |-> FALSE]
    /\ flip_i = 0
    /\ last_flip = [called |-> FALSE]

NoSplit ==
    /\ NoFlip
    /\ removed = [called |-> FALSE]
    /\ split = FALSE
    /\ paragraph = 1
    /\ linked_ok = <<>>
    /\ yielded = <<>>

\* Edge.__init__: both ends None (the two setter calls with None change nothing)
Edge(head_index, rel, remote) ==
    [head_index |-> head_index, rel |-> rel, remote |-> remote,
     head |-> None, dependent |-> None]

\* Edge.__eq__; comparing a Node dependent with a None dependent raises in
\* Node.__eq__, which no operation modelled here reaches: it counts as unequal
EdgeEq(a, b) ==
    /\ a.head_index = b.head_index
    /\ a.dependent = b.dependent
    /\ a.rel = b.rel
    /\ a.remote = b.remote

\* `e in lst`: identity first, then __eq__
Contains(G, lst, e) ==
    \E i \in 1..Len(lst) : lst[i] = e \/ EdgeEq(G.edges[lst[i]], G.edges[e])

\* list.remove(e): drops the first item that is e or equals e
ListRemove(G, lst, e) ==
    IF Contains(G, lst, e)
    THEN LET i == CHOOSE i \in 1..Len(lst) :
                    /\ lst[i] = e \/ EdgeEq(G.edges[lst[i]], G.edges[e])
                    /\ \A j \in 1..(i - 1) :
                         ~(lst[j] = e \/ EdgeEq(G.edges[lst[j]], G.edges[e]))
         IN RemoveAt(lst, i)
    ELSE lst

\* the head setter
SetHead(G, e, h) ==
    LET old == G.edges[e].head
        G1 == IF old # None /\ Contains(G, G.outgoing[old], e)
              THEN [G EXCEPT !.outgoing[old] = ListRemove(G, @, e)]
              ELSE G
        G2 == [G1 EXCEPT !.edges[e].head = h]
    IN IF h # None
       THEN [G2 EXCEPT !.outgoing[h] = Append(@, e), !.edges[e].head_index = h - 1]
       ELSE G2

\* the dependent setter
SetDependent(G, e, d) ==
    LET old == G.edges[e].dependent
        G1 == IF old # None
              THEN [G EXCEPT !.incoming[old] = ListRemove(G, @, e)]
              ELSE G
        G2 == [G1 EXCEPT !.edges[e].dependent = d]
    IN IF d # None
       THEN [G2 EXCEPT !.incoming[d] = Append(@, e)]
       ELSE G2

\* Edge.remove that forgets the head: self.dependent = None alone
EdgeRemove_keeps_head(G, e) == SetDependent(G, e, None)

\* Edge.remove
EdgeRemove(G, e) == SetDependent(SetHead(G, e, None), e, None)

RECURSIVE SetDependents(_, _, _)
SetDependents(G, es, d) ==
    IF es = <<>> THEN G
    ELSE SetDependents(SetDependent(G, Head(es), d), Tail(es), d)

\* Node.add_edges: the primary edges first, then the remote ones, each group in
\* the order in which `es` enumerates it
add_edges(G, d, es) ==
    SetDependents(G, SelectSeq(es, LAMBDA e : ~G.edges[e].remote)
                     \o SelectSeq(es, LAMBDA e : G.edges[e].remote), d)

RECURSIVE Construct(_, _)
\* the Edge objects built from the field triples in `es`, appended to G.edges
Construct(G, es) ==
    IF es = <<>> THEN G
    ELSE Construct([G EXCEPT !.edges = Append(@, Edge(Head(es).head_index,
                                                      Head(es).rel, Head(es).remote))],
                   Tail(es))

\* Node.__init__ with incoming edges: `es` are the triples of the new Edge
\* objects in the order in which the given collection enumerates them
NewNode(G, position, es) ==
    LET G1 == Construct(G, es)
        ids == [i \in 1..Len(es) |-> Len(G.edges) + i]
    IN add_edges(G1, position, ids)

\* ------------------------------------------------------------ head linking
\* heads[index] of a Python list: a negative index counts from the end, and an
\* index outside -len..len-1 raises IndexError
InRange(index, heads) == -Len(heads) <= index /\ index < Len(heads)

ListItem(heads, index) ==
    IF index >= 0 THEN heads[index + 1] ELSE heads[Len(heads) + index + 1]

\* Edge.link_head for an integer head_index
link_head(G, e, heads) == SetHead(G, e, ListItem(heads, G.edges[e].head_index))

\* the (node, edge) visits of the double loop of _link_heads, in order
RECURSIVE IncomingOf(_, _)
IncomingOf(G, nodes) ==
    IF nodes = <<>> THEN <<>>
    ELSE G.incoming[Head(nodes)] \o IncomingOf(G, Tail(nodes))

RECURSIVE link_edges(_, _, _)
\* links the edges of `es` in order and stops at the first one that raises
link_edges(G, es, heads) ==
    IF es = <<>> THEN [G |-> G, raised |-> FALSE]
    ELSE IF ~InRange(G.edges[Head(es)].head_index, heads) THEN [G |-> G, raised |-> TRUE]
    ELSE link_edges(link_head(G, Head(es), heads), Tail(es), heads)

\* heads = [n for n in dep_nodes if n.is_head]
heads_of(nodes) == SelectSeq(nodes, LAMBDA n : is_head[n])

\* _link_heads without multi-word nodes
link_heads(G, nodes) == link_edges(G, IncomingOf(G, nodes), heads_of(nodes))

\* ------------------------------------------------------------ preprocess
is_flat(edge) == edge.rel = Terminal

HasRootEdge(G, n) == \E i \in 1..Len(G.incoming[n]) : G.edges[G.incoming[n][i]].rel = root

roots(G, nodes) == SelectSeq(nodes, LAMBDA n : HasRootEdge(G, n))

RECURSIVE demote_roots(_, _)
\* lines 524-525: the other roots lose their root edges (and any edge with a
\* negative head index) by direct assignment to Node.incoming
demote_roots(G, rest) ==
    IF rest = <<>> THEN G
    ELSE demote_roots(
            [G EXCEPT !.incoming[Head(rest)] =
                SelectSeq(@, LAMBDA e : G.edges[e].rel # root /\ G.edges[e].head_index >= 0)],
            Tail(rest))

RECURSIVE preprocess_edges(_, _, _, _, _)
\* lines 529-536: `for edge in dep_node.incoming` walks the live list by index
\* i (1-based here), so an edge.remove() inside the loop shifts the later items
\* under the iterator
preprocess_edges(G, d, i, is_parentless, is_ucca) ==
    IF i > Len(G.incoming[d]) THEN [G |-> G, is_parentless |-> is_parentless]
    ELSE LET e == G.incoming[d][i] IN
         IF G.edges[e].remote
         THEN IF is_flat(G.edges[e])
              THEN preprocess_edges(EdgeRemove(G, e), d, i + 1, is_parentless, is_ucca)
              ELSE IF ~is_ucca
                   THEN preprocess_edges([G EXCEPT !.edges[e].remote = FALSE],
                                         d, i + 1, is_parentless, is_ucca)
                   ELSE preprocess_edges(G, d, i + 1, is_parentless, is_ucca)
         ELSE preprocess_edges(G, d, i + 1, FALSE, is_ucca)

\* lines 539 and 542: dep_node.incoming = [Edge(...)], a direct assignment
AssignIncoming(G, d, edge) ==
    [G EXCEPT !.edges = Append(@, edge), !.incoming[d] = <<Len(G.edges) + 1>>]

RECURSIVE preprocess_nodes(_, _, _, _)
\* lines 527-542
preprocess_nodes(G, nodes, rts, c) ==
    IF nodes = <<>> THEN G
    ELSE LET d == Head(nodes)
             r == preprocess_edges(G, d, 1, TRUE, c.is_ucca)
         IN IF r.is_parentless /\ c.tree
            THEN IF rts # <<>>
                 THEN preprocess_nodes(
                        AssignIncoming(r.G, d, Edge(rts[1] - 1, ORPHAN, FALSE)),
                        Tail(nodes), rts, c)
                 ELSE preprocess_nodes(
                        AssignIncoming(r.G, d, Edge(-1, root, FALSE)),
                        Tail(nodes), <<d>>, c)
            ELSE preprocess_nodes(r.G, Tail(nodes), rts, c)

preprocess(G, nodes, to_dep, c) ==
    LET rts == roots(G, nodes) IN
    IF to_dep /\ c.tree /\ Len(rts) > 1
    THEN preprocess_nodes(demote_roots(G, Tail(rts)), nodes, <<rts[1]>>, c)
    ELSE preprocess_nodes(G, nodes, rts, c)

\* ------------------------------------------------------------ to_format
\* The labels of the passage's edges: any label may reach incoming_edges except
\* ROOT and TOP, which find_top_headed_edges drops.
PassageTags == {root, Terminal, Elaborator}

\* what zip(edges, head_indices) of incoming_edges can hold for one terminal:
\* a head index is the position - 1 of one of the passage's terminals
Candidates ==
    [head_index : 0..(terminals - 1), rel : PassageTags, remote : BOOLEAN]

omit_edge(e, tree) == FALSE

\* incoming_edges: the set of the Edge objects kept (a Python set, so equal
\* triples are one element)
incoming_edges(position, cands, test) ==
    IF test THEN {}
    ELSE {c \in cands : c.head_index # position - 1 /\ ~omit_edge(c, TRUE)}

Configs == [tree : BOOLEAN, is_ucca : BOOLEAN, test : BOOLEAN]

InitToFormat ==
    /\ cfg \in Configs
    /\ pc = "to_format"
    /\ dep_nodes = <<>>
    /\ edges = <<>>
    /\ incoming = EmptyAdjacency
    /\ outgoing = EmptyAdjacency
    /\ entry = Graph
    /\ terminals \in 1..NumTerminals
    /\ NoSort
    /\ NoLink
    /\ NoSplit
    /\ NoUnit
    /\ NoWords

\* to_format, lines 562-572: the Node of the next terminal in position order
ToFormatNode ==
    /\ pc = "to_format"
    /\ Len(dep_nodes) < terminals
    /\ LET position == Len(dep_nodes) + 1 IN
       \E cands \in SmallSubsets(Candidates, MaxEdges - Len(edges)) :
         \E es \in Perms(incoming_edges(position, cands, cfg.test)) :
           LET G == NewNode(Graph, position, es) IN
           /\ edges' = G.edges
           /\ incoming' = G.incoming
           /\ outgoing' = G.outgoing
           /\ dep_nodes' = Append(dep_nodes, position)
    /\ UNCHANGED restVars
    /\ UNCHANGED <<cfg, pc, entry, terminals, iterations, sortVars, headVars, wordVars>>

\* to_format, line 573
ToFormatLinkHeads ==
    /\ pc = "to_format"
    /\ Len(dep_nodes) = terminals
    /\ LET r == link_heads(Graph, dep_nodes) IN
       /\ edges' = r.G.edges
       /\ incoming' = r.G.incoming
       /\ outgoing' = r.G.outgoing
       /\ pc' = IF r.raised THEN "raised" ELSE "linked"
    /\ UNCHANGED restVars
    /\ UNCHANGED <<cfg, dep_nodes, entry, terminals, iterations, sortVars, headVars, wordVars>>

\* to_format, line 574
ToFormatPreprocess ==
    /\ pc = "linked"
    /\ LET G == preprocess(Graph, dep_nodes, TRUE, cfg) IN
       /\ edges' = G.edges
       /\ incoming' = G.incoming
       /\ outgoing' = G.outgoing
    /\ entry' = Graph
    /\ pc' = "preprocessed"
    /\ UNCHANGED restVars
    /\ UNCHANGED <<cfg, dep_nodes, terminals, iterations, sortVars, headVars, wordVars>>

NextToFormat == ToFormatNode \/ ToFormatLinkHeads \/ ToFormatPreprocess

SpecToFormat == InitToFormat /\ [][NextToFormat]_vars

\* ------------------------------------------------------------ break_cycles
RECURSIVE find_cycle(_, _, _, _)
RECURSIVE find_cycle_edges(_, _, _, _, _)
\* find_cycle(n, v, p): the result and the sets v and p as the call leaves them
find_cycle(G, n, v, p) ==
    IF n \in v THEN [found |-> FALSE, v |-> v, p |-> p]
    ELSE find_cycle_edges(G, n, 1, v \cup {n}, p \cup {n})

\* the loop of find_cycle that tests `e.head is n` in place of `e.head in p`
find_cycle_edges_self_only(G, n, i, v, p) ==
    IF i > Len(G.incoming[n]) THEN [found |-> FALSE, v |-> v, p |-> p \ {n}]
    ELSE LET h == G.edges[G.incoming[n][i]].head IN
         IF h = n THEN [found |-> TRUE, v |-> v, p |-> p]
         ELSE LET r == find_cycle(G, h, v, p) IN
              IF r.found THEN r ELSE find_cycle_edges(G, n, i + 1, r.v, r.p)

\* lines 503-507: the loop over n.incoming from its i-th edge on
find_cycle_edges(G, n, i, v, p) ==
    IF i > Len(G.incoming[n]) THEN [found |-> FALSE, v |-> v, p |-> p \ {n}]
    ELSE LET h == G.edges[G.incoming[n][i]].head IN
         IF h \in p THEN [found |-> TRUE, v |-> v, p |-> p]
         ELSE LET r == find_cycle(G, h, v, p) IN
              IF r.found THEN r ELSE find_cycle_edges(G, n, i + 1, r.v, r.p)

RECURSIVE any_cycle(_, _, _, _)
\* line 514: any(find_cycle(dep_node, visited, path) for dep_node in dep_nodes)
any_cycle(G, nodes, v, p) ==
    IF nodes = <<>> THEN [found |-> FALSE, v |-> v, p |-> p]
    ELSE LET r == find_cycle(G, Head(nodes), v, p) IN
         IF r.found THEN r ELSE any_cycle(G, Tail(nodes), r.v, r.p)

\* the sort key (not e.remote, e.rel == Linker): Linker edges last
removal_key_linker_last(edge) ==
    (IF edge.remote THEN 0 ELSE 2) + (IF edge.rel = Linker THEN 1 ELSE 0)

\* line 518: the sort key (not e.remote, e.rel != Linker), as a number that
\* orders like the pair of booleans
removal_key(edge) ==
    (IF edge.remote THEN 0 ELSE 2) + (IF edge.rel = Linker THEN 0 ELSE 1)

\* lines 517-518: min() returns the first edge with the least key among the
\* incoming edges of the nodes of `order`, one enumeration of the set `path`
min_edge(G, order) ==
    LET es == IncomingOf(G, order)
        i == CHOOSE i \in 1..Len(es) :
                /\ \A j \in 1..Len(es) :
                     removal_key(G.edges[es[i]]) <= removal_key(G.edges[es[j]])
                /\ \A j \in 1..(i - 1) :
                     removal_key(G.edges[es[j]]) > removal_key(G.edges[es[i]])
    IN es[i]

\* ------------------------------------------------------------ generate_graphs
\* what the head columns of a token line give: Edge.create(head, rel) per head
LineRels == {Linker, Elaborator}

LineEdges == [head_index : 0..NumTokens, rel : LineRels, remote : BOOLEAN]

\* the same, of lines that give primary edges of one relation only
PlainEdges == [head_index : 0..NumTokens, rel : {Elaborator}, remote : {FALSE}]

RECURSIVE SeqsUpTo(_, _)
\* the sequences over S of length at most k
SeqsUpTo(S, k) ==
    IF k = 0 THEN {<<>>}
    ELSE LET T == SeqsUpTo(S, k - 1) IN T \cup {Append(t, x) : t \in T, x \in S}

\* generate_graphs is entered: dep_nodes holds the dummy root once the first
\* token line is met (line 267)
InitFromFormat ==
    /\ cfg = [tree |-> FALSE, is_ucca |-> FALSE, test |-> FALSE]
    /\ pc = "lines"
    /\ dep_nodes = <<0>>
    /\ edges = <<>>
    /\ incoming = EmptyAdjacency
    /\ outgoing = EmptyAdjacency
    /\ entry = Graph
    /\ terminals = 0
    /\ NoSort
    /\ NoLink
    /\ NoSplit
    /\ NoUnit
    /\ NoWords

\* generate_graphs, lines 265-273: the next token line; read_line gives the
\* Node of the next position with the Edge objects of the line's head columns
ReadLine ==
    /\ pc = "lines"
    /\ Len(dep_nodes) <= NumTokens
    /\ \E es \in SeqsUpTo(LineEdges, MaxDeps - Len(edges)) :
         LET G == NewNode(Graph, Len(dep_nodes), es) IN
         /\ edges' = G.edges
         /\ incoming' = G.incoming
         /\ outgoing' = G.outgoing
         /\ dep_nodes' = Append(dep_nodes, Len(dep_nodes))
    /\ UNCHANGED restVars
    /\ UNCHANGED <<cfg, pc, entry, terminals, iterations, sortVars, headVars, wordVars>>

\* the same, of a line whose head columns give primary edges of one relation
ReadPlainLine ==
    /\ pc = "lines"
    /\ Len(dep_nodes) <= NumTokens
    /\ \E es \in SeqsUpTo(PlainEdges, MaxDeps - Len(edges)) :
         LET G == NewNode(Graph, Len(dep_nodes), es) IN
         /\ edges' = G.edges
         /\ incoming' = G.incoming
         /\ outgoing' = G.outgoing
         /\ dep_nodes' = Append(dep_nodes, Len(dep_nodes))
    /\ UNCHANGED restVars
    /\ UNCHANGED <<cfg, pc, entry, terminals, iterations, sortVars, headVars, wordVars>>

\* generate_graphs, lines 250-252: _graph() links the heads of the sentence
LinkHeads ==
    /\ pc = "lines"
    /\ Len(dep_nodes) > 1
    /\ LET r == link_heads(Graph, dep_nodes) IN
       /\ edges' = r.G.edges
       /\ incoming' = r.G.incoming
       /\ outgoing' = r.G.outgoing
       /\ pc' = IF r.raised THEN "raised" ELSE "graph"
    /\ UNCHANGED restVars
    /\ UNCHANGED <<cfg, dep_nodes, entry, terminals, iterations, sortVars, headVars, wordVars>>

\* break_cycles is entered with the list of linked nodes
BreakCyclesEnter ==
    /\ pc = "graph"
    /\ pc' = "break_cycles"
    /\ entry' = Graph
    /\ iterations' = 0
    /\ UNCHANGED restVars
    /\ UNCHANGED <<cfg, graphVars, terminals, sortVars, headVars, wordVars>>

\* one iteration of the loop of break_cycles that finds a cycle, lines 512-519
BreakCyclesRemove ==
    /\ pc = "break_cycles"
    /\ LET r == any_cycle(Graph, dep_nodes, {}, {}) IN
       /\ r.found
       /\ \E order \in Perms(r.p) :
            LET e == min_edge(Graph, order)
                G == EdgeRemove(Graph, e)
            IN /\ edges' = G.edges
               /\ incoming' = G.incoming
               /\ outgoing' = G.outgoing
               /\ removed' = [called |-> TRUE, edge |-> e, path |-> r.p, pre |-> Graph]
    /\ iterations' = iterations + 1
    /\ UNCHANGED <<is_head, linked, splitVars, flipVars>>
    /\ UNCHANGED <<cfg, pc, dep_nodes, entry, terminals, sortVars, headVars, wordVars>>

\* the iteration that finds no cycle: break, and break_cycles returns
BreakCyclesReturn ==
    /\ pc = "break_cycles"
    /\ ~any_cycle(Graph, dep_nodes, {}, {}).found
    /\ pc' = "acyclic"
    /\ UNCHANGED restVars
    /\ UNCHANGED <<cfg, graphVars, entry, terminals, iterations, sortVars, headVars, wordVars>>

NextCycles ==
    \/ ReadLine
    \/ LinkHeads
    \/ BreakCyclesEnter
    \/ BreakCyclesRemove
    \/ BreakCyclesReturn

SpecCycles == InitFromFormat /\ [][NextCycles]_vars

\* ------------------------------------------------------------ _topological_sort
\* line 215 without `and e.head not in node.heads_visited`
unvisited_heads_again(G, lv, hv, node) ==
    LET hs == [i \in 1..Len(G.incoming[node]) |-> G.edges[G.incoming[node][i]].head]
    IN SelectSeq(hs, LAMBDA h : lv[h] = None)

\* line 215: the heads of the node's incoming edges that have no level yet and
\* are not in node.heads_visited, one per edge, in the order of node.incoming
unvisited_heads(G, lv, hv, node) ==
    LET hs == [i \in 1..Len(G.incoming[node]) |-> G.edges[G.incoming[node][i]].head]
    IN SelectSeq(hs, LAMBDA h : lv[h] = None /\ h \notin hv[node])

\* `e.head.level or 0`
level_or_0(lv, h) == IF lv[h] = None THEN 0 ELSE lv[h]

\* line 220 with min in place of max
level_below_heads_min(G, lv, node) ==
    LET ls == {level_or_0(lv, G.edges[G.incoming[node][i]].head) :
                   i \in 1..Len(G.incoming[node])}
    IN 1 + CHOOSE m \in ls : \A l \in ls : m <= l

\* line 220: 1 + max(e.head.level or 0 for e in node.incoming)
level_below_heads(G, lv, node) ==
    LET ls == {level_or_0(lv, G.edges[G.incoming[node][i]].head) :
                   i \in 1..Len(G.incoming[node])}
    IN 1 + CHOOSE m \in ls : \A l \in ls : l <= m

RECURSIVE sort_by_level(_, _)
\* a sort that keeps one node per level: levels[node.level] = node in place of
\* levels[node.level].add(node)
sort_by_level_one_per_level(lv, ns) ==
    IF ns = {} THEN <<>>
    ELSE LET n == CHOOSE n \in ns : \A m \in ns :
                     lv[n] < lv[m] \/ (lv[n] = lv[m] /\ n >= m)
         IN <<n>> \o sort_by_level(lv, {m \in ns : lv[m] # lv[n]})

\* lines 225-227: ascending level, and within a level ascending position of
\* the terminal (the terminal of the node at position p has position p)
sort_by_level(lv, ns) ==
    IF ns = {} THEN <<>>
    ELSE LET n == CHOOSE n \in ns : \A m \in ns :
                     lv[n] < lv[m] \/ (lv[n] = lv[m] /\ n <= m)
         IN <<n>> \o sort_by_level(lv, ns \ {n})

\* create_non_terminals, line 310: _topological_sort(graph.nodes) is entered;
\* line 209 takes the leaves
SortEnter ==
    /\ pc = "graph"
    /\ remaining' = SelectSeq(dep_nodes, LAMBDA n : outgoing[n] = <<>>)
    /\ pc' = "sorting"
    /\ entry' = Graph
    /\ UNCHANGED restVars
    /\ UNCHANGED <<cfg, graphVars, terminals, iterations, level, heads_visited, sorted,
                   sort_steps, headVars, wordVars>>

\* one iteration of `while remaining`, lines 211-223
SortStep ==
    /\ pc = "sorting"
    /\ remaining # <<>>
    /\ LET node == remaining[Len(remaining)]
           rest == SubSeq(remaining, 1, Len(remaining) - 1)
           heads == unvisited_heads(Graph, level, heads_visited, node)
       IN IF level[node] # None
          THEN /\ remaining' = rest
               /\ UNCHANGED <<level, heads_visited>>
          ELSE IF incoming[node] # <<>>
               THEN IF heads # <<>>
                    THEN /\ heads_visited' =
                              [heads_visited EXCEPT ![node] = @ \cup Range(heads)]
                         /\ remaining' = rest \o <<node>> \o heads
                         /\ UNCHANGED level
                    ELSE /\ level' = [level EXCEPT ![node] =
                                          level_below_heads(Graph, level, node)]
                         /\ remaining' = rest
                         /\ UNCHANGED heads_visited
               ELSE /\ level' = [level EXCEPT ![node] = 0]
                    /\ remaining' = rest
                    /\ UNCHANGED heads_visited
    /\ sort_steps' = sort_steps + 1
    /\ UNCHANGED restVars
    /\ UNCHANGED <<cfg, pc, graphVars, entry, terminals, iterations, sorted, headVars,
                   wordVars>>

\* lines 225-227: the work list is empty and the sorted list is returned
SortReturn ==
    /\ pc = "sorting"
    /\ remaining = <<>>
    /\ sorted' = sort_by_level(level, {n \in Range(dep_nodes) : level[n] # None /\ level[n] > 0})
    /\ pc' = "sorted"
    /\ UNCHANGED restVars
    /\ UNCHANGED <<cfg, graphVars, entry, terminals, iterations, level, heads_visited,
                   remaining, sort_steps, headVars, wordVars>>

NextSort ==
    \/ ReadPlainLine
    \/ LinkHeads
    \/ SortEnter
    \/ SortStep
    \/ SortReturn

SpecSort == InitFromFormat /\ [][NextSort]_vars

\* ------------------------------------------------------------ generate_graphs, split
\* what the head column of a token line can hold: any integer text, of which
\* Edge.create takes int(head_position)
SplitEdges == [head_index : (-1)..NumTokens, rel : {Elaborator}, remote : {FALSE}]

\* generate_graphs is entered; dep_nodes = None is the empty sequence here
InitSplit ==
    /\ cfg = [tree |-> FALSE, is_ucca |-> FALSE, test |-> FALSE]
    /\ pc = "split_lines"
    /\ dep_nodes = <<>>
    /\ edges = <<>>
    /\ incoming = EmptyAdjacency
    /\ outgoing = EmptyAdjacency
    /\ entry = Graph
    /\ terminals = 0
    /\ NoSort
    /\ NoUnit
    /\ NoWords
    /\ is_head = [p \in Positions |-> TRUE]
    /\ linked = [called |-> FALSE]
    /\ removed = [called |-> FALSE]
    /\ NoFlip
    /\ split \in BOOLEAN
    /\ paragraph = 1
    /\ linked_ok = <<>>
    /\ yielded = <<>>

\* _graph(), lines 250-252: _link_heads on the sentence's nodes, recorded with
\* the graph it found and the graph it left
graph_call(G, nodes) ==
    LET r == IF nodes = <<>> THEN [G |-> G, raised |-> TRUE]  \* iterating None
             ELSE link_heads(G, nodes)
    IN [called |-> TRUE, pre |-> G, post |-> r.G, nodes |-> nodes,
        is_head |-> is_head, raised |-> r.raised]

\* lines 265-273: a token line; the first one of a sentence makes the dummy root
SplitTokenLine ==
    /\ pc = "split_lines"
    /\ dep_nodes = <<>> => Len(linked_ok) < NumSentences
    /\ LET nodes == IF dep_nodes = <<>> THEN <<0>> ELSE dep_nodes IN
       /\ Len(nodes) <= NumTokens
       /\ \E es \in SeqsUpTo(SplitEdges, MaxDeps - Len(edges)) : \E h \in BOOLEAN :
            LET G == NewNode(Graph, Len(nodes), es) IN
            /\ edges' = G.edges
            /\ incoming' = G.incoming
            /\ outgoing' = G.outgoing
            /\ dep_nodes' = Append(nodes, Len(nodes))
            /\ is_head' = [is_head EXCEPT ![Len(nodes)] = h]
    /\ linked' = [called |-> FALSE]
    /\ UNCHANGED <<cfg, pc, entry, terminals, iterations, sortVars, headVars, wordVars,
                   splitVars, removed, flipVars>>

\* lines 274-280: an empty line that ends a sentence when split is set: _graph()
\* inside try; the graph is yielded, or the exception is caught, the sentence
\* reported as skipped and the sentence's variables are reset
SplitBlankLine ==
    /\ pc = "split_lines"
    /\ split
    /\ dep_nodes # <<>>
    /\ LET r == graph_call(Graph, dep_nodes) IN
       /\ linked' = r
       /\ linked_ok' = Append(linked_ok, ~r.raised)
       /\ IF r.raised
          THEN /\ dep_nodes' = <<>>
               /\ edges' = <<>>
               /\ incoming' = EmptyAdjacency
               /\ outgoing' = EmptyAdjacency
               /\ is_head' = [p \in Positions |-> TRUE]
               /\ UNCHANGED <<pc, yielded>>
          ELSE /\ edges' = r.post.edges
               /\ incoming' = r.post.incoming
               /\ outgoing' = r.post.outgoing
               /\ yielded' = Append(yielded, Len(linked_ok) + 1)
               /\ pc' = "yield"
               /\ UNCHANGED <<dep_nodes, is_head>>
    /\ paragraph' = 1
    /\ UNCHANGED <<cfg, entry, terminals, iterations, sortVars, headVars, wordVars, split,
                   removed, flipVars>>

\* lines 279-280: the generator is resumed after the yield of line 276
SplitResume ==
    /\ pc = "yield"
    /\ pc' = "split_lines"
    /\ dep_nodes' = <<>>
    /\ edges' = <<>>
    /\ incoming' = EmptyAdjacency
    /\ outgoing' = EmptyAdjacency
    /\ is_head' = [p \in Positions |-> TRUE]
    /\ UNCHANGED <<cfg, entry, terminals, iterations, sortVars, headVars, wordVars,
                   linked, splitVars, removed, flipVars>>

\* lines 281-282: an empty line that ends no sentence
ParagraphBreak ==
    /\ pc = "split_lines"
    /\ ~(split /\ dep_nodes # <<>>)
    /\ paragraph < NumParagraphs
    /\ paragraph' = paragraph + 1
    /\ UNCHANGED <<cfg, pc, graphVars, entry, terminals, iterations, sortVars, headVars,
                   wordVars, is_head, linked, split, linked_ok, yielded, removed, flipVars>>

\* lines 283-284: the lines are exhausted; _graph() of the last sentence is
\* called outside of any try
SplitEnd ==
    /\ pc = "split_lines"
    /\ IF ~split \/ dep_nodes # <<>>
       THEN LET r == graph_call(Graph, dep_nodes) IN
            /\ linked' = r
            /\ linked_ok' = Append(linked_ok, ~r.raised)
            /\ edges' = r.post.edges
            /\ incoming' = r.post.incoming
            /\ outgoing' = r.post.outgoing
            /\ IF r.raised
               THEN pc' = "generator_raised" /\ UNCHANGED yielded
               ELSE pc' = "last_yield" /\ yielded' = Append(yielded, Len(linked_ok) + 1)
       ELSE /\ pc' = "done"
            /\ UNCHANGED <<edges, incoming, outgoing, linked, linked_ok, yielded>>
    /\ UNCHANGED <<cfg, dep_nodes, entry, terminals, iterations, sortVars, headVars,
                   wordVars, is_head, split, paragraph, removed, flipVars>>

\* the generator is resumed after the yield of line 284 and returns
SplitReturn ==
    /\ pc = "last_yield"
    /\ pc' = "done"
    /\ UNCHANGED <<cfg, graphVars, entry, terminals, iterations, sortVars, headVars,
                   wordVars, restVars>>

NextSplit ==
    \/ SplitTokenLine
    \/ SplitBlankLine
    \/ SplitResume
    \/ ParagraphBreak
    \/ SplitEnd
    \/ SplitReturn

SpecSplit == InitSplit /\ [][NextSplit]_vars

\* ------------------------------------------------------------ create_non_terminals
\* generate_graphs, lines 265-273: a token line whose token is punctuation or
\* not (is_punct reads the token's tag and pos)
ReadTaggedLine ==
    /\ pc = "lines"
    /\ Len(dep_nodes) <= NumTokens
    /\ \E es \in SeqsUpTo(LineEdges, MaxDeps - Len(edges)) : \E punct \in BOOLEAN :
         LET G == NewNode(Graph, Len(dep_nodes), es) IN
         /\ edges' = G.edges
         /\ incoming' = G.incoming
         /\ outgoing' = G.outgoing
         /\ dep_nodes' = Append(dep_nodes, Len(dep_nodes))
         /\ is_punct' = [is_punct EXCEPT ![Len(dep_nodes)] = punct]
    /\ UNCHANGED <<cfg, pc, entry, terminals, iterations, sortVars, headVars, wordVars,
                   is_head, linked, splitVars, removed, flip_i, last_flip>>

RECURSIVE set_heads(_, _, _)
\* for edge in es: edge.head = head
set_heads(G, es, head) ==
    IF es = <<>> THEN G
    ELSE set_heads(SetHead(G, Head(es), head), Tail(es), head)

\* lines 303-308: the edges of the punctuation node d are flipped
flip_edges(G, nodes, d) ==
    LET head == IF G.incoming[d] # <<>> THEN G.edges[G.incoming[d][1]].head
                ELSE nodes[1]
        out == G.outgoing[d]
        G1 == set_heads(G, out, head)
    IN set_heads(G1, G1.incoming[d], G1.edges[out[1]].head)

\* create_non_terminals is entered with the graph that generate_graphs yielded
FlipEnter ==
    /\ pc = "graph"
    /\ pc' = "flipping"
    /\ flip_i' = 1
    /\ entry' = Graph
    /\ UNCHANGED <<cfg, graphVars, terminals, iterations, sortVars, headVars, wordVars,
                   is_head, linked, splitVars, removed, is_punct, last_flip>>

\* lines 298-308: one iteration of the loop over graph.nodes
FlipStep ==
    /\ pc = "flipping"
    /\ flip_i <= Len(dep_nodes)
    /\ LET d == dep_nodes[flip_i] IN
       IF outgoing[d] # <<>> /\ is_punct[d]
       THEN LET G == flip_edges(Graph, dep_nodes, d) IN
            /\ edges' = G.edges
            /\ incoming' = G.incoming
            /\ outgoing' = G.outgoing
            /\ last_flip' = [called |-> TRUE, node |-> d, pre |-> Graph]
       ELSE UNCHANGED <<edges, incoming, outgoing, last_flip>>
    /\ flip_i' = flip_i + 1
    /\ UNCHANGED <<cfg, pc, dep_nodes, entry, terminals, iterations, sortVars, headVars,
                   wordVars, is_head, linked, splitVars, removed, is_punct>>

\* the loop over graph.nodes is done
FlipReturn ==
    /\ pc = "flipping"
    /\ flip_i > Len(dep_nodes)
    /\ pc' = "flipped"
    /\ UNCHANGED <<cfg, graphVars, entry, terminals, iterations, sortVars, headVars,
                   wordVars, restVars>>

NextFlip ==
    \/ ReadTaggedLine
    \/ LinkHeads
    \/ FlipEnter
    \/ FlipStep
    \/ FlipReturn

SpecFlip == InitFromFormat /\ [][NextFlip]_vars

\* ------------------------------------------------------------ find_head_child
\* An outgoing edge of a unit is [tag, remote, implicit]: its label, its remote
\* attribute and the implicit attribute of its child; the i-th edge of the unit
\* leads to the child i.

\* primary_edges that does not test the remote attribute
primary_edges_with_remote(u, tag) ==
    SelectSeq([i \in 1..Len(u) |-> i],
              LAMBDA i : ~u[i].implicit /\ (tag = NoneStr \/ u[i].tag = tag))

\* primary_edges(unit, tag): the edges, as indices into the unit, in the order
\* in which the unit enumerates them
primary_edges(u, tag) ==
    SelectSeq([i \in 1..Len(u) |-> i],
              LAMBDA i : ~u[i].remote /\ ~u[i].implicit
                         /\ (tag = NoneStr \/ u[i].tag = tag))

RECURSIVE first_primary(_, _)
\* next(e.child for tag in tags for e in primary_edges(unit, tag)); 0 stands
\* for StopIteration, which find_head_child turns into a RuntimeError
first_primary(u, tags) ==
    IF tags = <<>> THEN 0
    ELSE LET es == primary_edges(u, Head(tags)) IN
         IF es # <<>> THEN es[1] ELSE first_primary(u, Tail(tags))

\* __init__, line 174: self.tag_priority
priority_list(configured) == <<HEAD>> \o configured \o TAG_PRIORITY \o <<NoneStr>>

find_head_child(u, configured) == first_primary(u, priority_list(configured))

UnitTags == {HEAD, Center, Elaborator, "nsubj"}

UnitEdges == [tag : UnitTags, remote : BOOLEAN, implicit : BOOLEAN]

ConfiguredTags == {<<>>, <<Elaborator>>, <<"nsubj">>}

InitHead ==
    /\ cfg = [tree |-> FALSE, is_ucca |-> FALSE, test |-> FALSE]
    /\ pc = "unit"
    /\ dep_nodes = <<>>
    /\ edges = <<>>
    /\ incoming = EmptyAdjacency
    /\ outgoing = EmptyAdjacency
    /\ entry = Graph
    /\ terminals = 0
    /\ NoSort
    /\ NoLink
    /\ NoSplit
    /\ NoWords
    /\ tag_priority \in ConfiguredTags
    /\ unit \in SeqsUpTo(UnitEdges, MaxChildren) \ {<<>>}
    /\ head_child = None

\* find_head_child(unit) is called and returns or raises
FindHeadChild ==
    /\ pc = "unit"
    /\ head_child' = find_head_child(unit, tag_priority)
    /\ pc' = IF head_child' = 0 THEN "RuntimeError" ELSE "head_child"
    /\ UNCHANGED restVars
    /\ UNCHANGED <<cfg, graphVars, entry, terminals, iterations, sortVars, tag_priority,
                   unit, wordVars>>

NextHead == FindHeadChild

SpecHead == InitHead /\ [][NextHead]_vars

\* ------------------------------------------------------------ parent_multi_word
\* A multi-word Node is [position, text, span]; it is identified by its index
\* in mw_nodes, and the cell multi_words[0] holds such an index or None.

\* parent_multi_word that does not compare the text with the cell's Node
parent_multi_word_any_text(cell, nodes, position, text) ==
    IF text = NoneStr
    THEN [cell |-> None, nodes |-> nodes]
    ELSE IF cell = None
         THEN [cell |-> Len(nodes) + 1,
               nodes |-> Append(nodes, [position |-> position, text |-> text,
                                        span |-> <<position, position>>])]
         ELSE [cell |-> cell, nodes |-> [nodes EXCEPT ![cell].span[2] = position]]

\* parent_multi_word(terminal, multi_words) for the terminal at `position` with
\* the multi-word text `text`: the cell (which is also what the call returns)
\* and the multi-word Nodes after the call
parent_multi_word(cell, nodes, position, text) ==
    IF text = NoneStr
    THEN [cell |-> None, nodes |-> nodes]
    ELSE IF cell = None \/ text # nodes[cell].text
         THEN [cell |-> Len(nodes) + 1,
               nodes |-> Append(nodes, [position |-> position, text |-> text,
                                        span |-> <<position, position>>])]
         ELSE [cell |-> cell, nodes |-> [nodes EXCEPT ![cell].span[2] = position]]

MultiWordTexts == {NoneStr, "zum", "im"}

InitWords ==
    /\ cfg = [tree |-> FALSE, is_ucca |-> FALSE, test |-> FALSE]
    /\ pc = "words"
    /\ dep_nodes = <<>>
    /\ edges = <<>>
    /\ incoming = EmptyAdjacency
    /\ outgoing = EmptyAdjacency
    /\ entry = Graph
    /\ terminals = 0
    /\ NoSort
    /\ NoLink
    /\ NoSplit
    /\ NoUnit
    /\ extra \in SeqsUpTo(MultiWordTexts, NumWords) \ {<<>>}
    /\ multi_words = None
    /\ mw_nodes = <<>>
    /\ parent_mw = <<>>

\* to_format, lines 561-572: the call of parent_multi_word for the next
\* terminal in ascending position, with the one cell multi_words
ParentMultiWord ==
    /\ pc = "words"
    /\ Len(parent_mw) < Len(extra)
    /\ LET position == Len(parent_mw) + 1
           r == parent_multi_word(multi_words, mw_nodes, position, extra[position])
       IN /\ multi_words' = r.cell
          /\ mw_nodes' = r.nodes
          /\ parent_mw' = Append(parent_mw, r.cell)
    /\ UNCHANGED restVars
    /\ UNCHANGED <<cfg, pc, graphVars, entry, terminals, iterations, sortVars, headVars,
                   extra>>

NextWords == ParentMultiWord

SpecWords == InitWords /\ [][NextWords]_vars

\* ------------------------------------------------------------ claims on preprocess
EdgeIds == 1..Len(edges)

InIncoming(G, e, n) == \E i \in 1..Len(G.incoming[n]) : G.incoming[n][i] = e

InOutgoing(G, e, n) == \E i \in 1..Len(G.outgoing[n]) : G.outgoing[n][i] = e

HasPrimary(G, n) == \E i \in 1..Len(G.incoming[n]) : ~G.edges[G.incoming[n][i]].remote

RootNodes == {n \in Range(dep_nodes) : HasRootEdge(Graph, n)}

\* C3: with tree mode, after preprocess exactly one node has an incoming root
\* edge, every other node without a primary incoming edge on entry has an
\* orphan edge to that root (head index = the root's position - 1), and a node
\* that had a primary head keeps it.
C3_SingleRoot ==
    (pc = "preprocessed" /\ cfg.tree) =>
        /\ Cardinality(RootNodes) = 1
        /\ \A r \in RootNodes : \A n \in Range(dep_nodes) \ {r} :
             /\ ~HasPrimary(entry, n) =>
                  \E i \in 1..Len(incoming[n]) :
                     /\ edges[incoming[n][i]].rel = ORPHAN
                     /\ edges[incoming[n][i]].head_index = r - 1
             /\ \A e \in 1..Len(entry.edges) :
                  (InIncoming(entry, e, n) /\ ~entry.edges[e].remote) =>
                     (InIncoming(Graph, e, n) /\ edges[e].head = entry.edges[e].head)

\* C4: no node of the graph that to_format builds has an incoming edge whose
\* head index is the node's own index (position - 1).
C4_NoSelfLoop ==
    \A n \in Range(dep_nodes) : \A i \in 1..Len(incoming[n]) :
        edges[incoming[n][i]].head_index # n - 1

\* C5: after preprocess, every edge that was remote and flat in some incoming
\* list on entry is in no incoming list and is detached from both ends.
C5_RemoteFlatRemoved ==
    pc = "preprocessed" =>
        \A e \in 1..Len(entry.edges) :
            (entry.edges[e].remote /\ is_flat(entry.edges[e])
                /\ \E n \in Range(dep_nodes) : InIncoming(entry, e, n)) =>
                /\ \A n \in Range(dep_nodes) : ~InIncoming(Graph, e, n)
                /\ edges[e].head = None
                /\ edges[e].dependent = None

\* C6: adjacency agrees with the edges' ends: e is in n.outgoing exactly when
\* e.head is n, and in n.incoming exactly when e.dependent is n.
C6_AdjacencyConsistent ==
    \A e \in EdgeIds : \A n \in Positions :
        /\ InOutgoing(Graph, e, n) <=> edges[e].head = n
        /\ InIncoming(Graph, e, n) <=> edges[e].dependent = n

\* ------------------------------------------------------------ claims on break_cycles
HeadsOf(G, n) == {G.edges[G.incoming[n][i]].head : i \in 1..Len(G.incoming[n])}

RECURSIVE Ancestors(_, _, _)
\* the nodes reached from the set S in at most k steps dependent -> head
Ancestors(G, S, k) ==
    IF k = 0 THEN S
    ELSE Ancestors(G, S \cup UNION {HeadsOf(G, n) : n \in S \cap Positions}, k - 1)

\* a directed cycle of the relation dependent -> head of the incoming lists
HasCycle(G) ==
    \E n \in Range(dep_nodes) : n \in Ancestors(G, HeadsOf(G, n), Len(dep_nodes))

RECURSIVE SumLen(_, _)
SumLen(adjacency, ns) ==
    IF ns = {} THEN 0
    ELSE LET n == CHOOSE n \in ns : TRUE
         IN Len(adjacency[n]) + SumLen(adjacency, ns \ {n})

InCount(G) == SumLen(G.incoming, Positions)

OutCount(G) == SumLen(G.outgoing, Positions)

\* C1: when break_cycles has returned, the relation dependent -> head of the
\* nodes' incoming lists has no directed cycle.
C1_NoCycleLeft == pc = "acyclic" => ~HasCycle(Graph)

\* break_cycles returned after removing edges of an input that had a self-loop
\* and a longer cycle through the same node
C1_Witness ==
    /\ pc = "acyclic"
    /\ iterations >= 2
    /\ \E n \in Range(dep_nodes) :
         /\ n \in HeadsOf(entry, n)
         /\ \E m \in Range(dep_nodes) \ {n} :
              m \in HeadsOf(entry, n) /\ n \in HeadsOf(entry, m)

\* C2: break_cycles halts: each iteration that finds a cycle takes exactly one
\* edge out of the incoming lists and one out of the outgoing lists, so after k
\* iterations k edges are gone and the iterations never outnumber the edges of
\* the input.
C2_OneEdgePerIteration ==
    pc \in {"break_cycles", "acyclic"} =>
        /\ iterations + InCount(Graph) = InCount(entry)
        /\ iterations + OutCount(Graph) = OutCount(entry)
        /\ iterations <= InCount(entry)

\* break_cycles returned after as many iterations as the input had edges
C2_Witness ==
    /\ pc = "acyclic"
    /\ iterations = MaxDeps
    /\ InCount(entry) = MaxDeps

\* the edges among which the last iteration of break_cycles chose: the
\* incoming edges of the nodes of the path that find_cycle left
RemovalCandidates ==
    UNION {Range(removed.pre.incoming[n]) : n \in removed.path}

Remote(e) == removed.pre.edges[e].remote

Rel(e) == removed.pre.edges[e].rel

\* C13 as stated: the edge removed is one of the incoming edges of the path's
\* nodes; it is primary only if none of them is remote, and a Linker edge only
\* if none of them of the same remoteness has another label (Linker edges last).
C13_LinkerLast ==
    removed.called =>
        /\ removed.edge \in RemovalCandidates
        /\ ~Remote(removed.edge) => \A c \in RemovalCandidates : ~Remote(c)
        /\ Rel(removed.edge) = Linker =>
             \A c \in RemovalCandidates :
                Remote(c) = Remote(removed.edge) => Rel(c) = Linker

\* C13 as amended: the edge removed is one of the incoming edges of the path's
\* nodes; it is primary only if none of them is remote, and it has a label other
\* than Linker only if none of them of the same remoteness is a Linker edge
\* (remote edges first, Linker edges first among those of one remoteness).
C13_LinkerFirst ==
    removed.called =>
        /\ removed.edge \in RemovalCandidates
        /\ ~Remote(removed.edge) => \A c \in RemovalCandidates : ~Remote(c)
        /\ Rel(removed.edge) # Linker =>
             \A c \in RemovalCandidates :
                Remote(c) = Remote(removed.edge) => Rel(c) # Linker

\* a primary Linker edge was removed though a primary edge of another label
\* stood before it among the candidates
C13_Witness ==
    /\ removed.called
    /\ ~Remote(removed.edge)
    /\ Rel(removed.edge) = Linker
    /\ \E n \in removed.path :
         /\ removed.pre.incoming[n] # <<>>
         /\ Rel(removed.pre.incoming[n][1]) # Linker
         /\ removed.edge \in Range(removed.pre.incoming[n])

\* the edge lies on a directed cycle of G: its dependent is reached from its
\* head along dependent -> head steps
OnCycle(G, e) ==
    G.edges[e].dependent \in Ancestors(G, {G.edges[e].head}, Cardinality(Positions))

\* C15: every edge that break_cycles removes lies on a directed cycle of the
\* graph as it is when the edge is removed.
C15_RemovedOnCycle ==
    removed.called => OnCycle(removed.pre, removed.edge)

\* ------------------------------------------------------------ claims on create_non_terminals
\* the head that the punctuation node flipped last had first, or the dummy root
FirstHead ==
    IF last_flip.pre.incoming[last_flip.node] # <<>>
    THEN last_flip.pre.edges[last_flip.pre.incoming[last_flip.node][1]].head
    ELSE dep_nodes[1]

\* C14: after the first loop of create_non_terminals no punctuation node has an
\* outgoing edge, and when a punctuation node has been flipped each of its
\* former children is headed by the node's first head, or by the dummy root
\* when it had none.
C14_NoPunctOutgoing ==
    /\ pc = "flipped" => \A n \in Range(dep_nodes) : is_punct[n] => outgoing[n] = <<>>
    /\ last_flip.called =>
         \A e \in Range(last_flip.pre.outgoing[last_flip.node]) :
            edges[e].head = FirstHead

\* ------------------------------------------------------------ claims on _topological_sort
RECURSIVE SumCard(_, _)
SumCard(f, ns) ==
    IF ns = {} THEN 0
    ELSE LET n == CHOOSE n \in ns : TRUE
         IN Cardinality(f[n]) + SumCard(f, ns \ {n})

\* what is left to do: a (node, head) pair not yet in heads_visited weighs more
\* than the growth of the work list by one iteration, which is at most the
\* number of the node's incoming edges
SortVariant ==
    (MaxDeps + 1) * (Cardinality(Positions) * Cardinality(Positions)
                     - SumCard(heads_visited, Positions))
    + Len(remaining)

\* the variant when the sort is entered: no head visited, the leaves queued
SortBound ==
    (MaxDeps + 1) * Cardinality(Positions) * Cardinality(Positions) + Len(dep_nodes)

\* C8: _topological_sort terminates, cycle or not: every iteration of its loop
\* lowers the variant (a node is queued again only with heads new to its
\* heads_visited), so the iterations done and the variant left never exceed the
\* variant at entry, and the work list runs empty.
C8_SortTerminates ==
    pc \in {"sorting", "sorted"} =>
        /\ sort_steps + SortVariant <= SortBound
        /\ pc = "sorted" => remaining = <<>>

\* the sort returned on an input in which it met a cycle: a node on a cycle
\* was queued again and got its level
C8_Witness ==
    /\ pc = "sorted"
    /\ \E n \in Range(dep_nodes) :
         /\ n \in Ancestors(Graph, HeadsOf(Graph, n), Len(dep_nodes))
         /\ heads_visited[n] # {}
         /\ level[n] # None

MaxLevel(S) == CHOOSE m \in S : \A l \in S : l <= m

IndexIn(seq, x) == CHOOSE i \in 1..Len(seq) : seq[i] = x

\* C9: on an acyclic input, nodes without incoming edges get level 0 and the
\* others 1 + the highest level of their heads, no node having a level while
\* one of its heads has none; the list returned holds the nodes of level above
\* 0 in ascending level, within a level in ascending position, so every node
\* of the list comes after those of its heads that are in the list.
C9_LevelsAndOrder ==
    (pc \in {"sorting", "sorted"} /\ ~HasCycle(Graph)) =>
        /\ \A n \in Range(dep_nodes) :
             (level[n] # None \/ pc = "sorted") =>
                IF incoming[n] = <<>> THEN level[n] = 0
                ELSE /\ \A h \in HeadsOf(Graph, n) : level[h] # None
                     /\ level[n] = 1 + MaxLevel({level[h] : h \in HeadsOf(Graph, n)})
        /\ pc = "sorted" =>
             /\ Range(sorted) = {n \in Range(dep_nodes) : level[n] > 0}
             /\ \A i, j \in 1..Len(sorted) :
                  i < j =>
                     \/ level[sorted[i]] < level[sorted[j]]
                     \/ (level[sorted[i]] = level[sorted[j]] /\ sorted[i] < sorted[j])
             /\ \A n \in Range(sorted) : \A h \in HeadsOf(Graph, n) \cap Range(sorted) :
                  IndexIn(sorted, h) < IndexIn(sorted, n)

\* an acyclic input was sorted in which a node has two heads of different levels
C9_Witness ==
    /\ pc = "sorted"
    /\ ~HasCycle(Graph)
    /\ Len(sorted) >= 2
    /\ \E n \in Range(sorted) : \E h, k \in HeadsOf(Graph, n) :
         level[h] < level[k] /\ level[n] = 2

\* no node stands twice in the list
NoDuplicates(seq) == \A i, j \in 1..Len(seq) : seq[i] = seq[j] => i = j

\* C16 as stated: on an acyclic input the list returned by _topological_sort
\* holds every node other than the dummy root exactly once, the token nodes
\* without incoming edges included.
C16_EveryToken ==
    (pc = "sorted" /\ ~HasCycle(Graph)) =>
        /\ NoDuplicates(sorted)
        /\ Range(sorted) = Range(dep_nodes) \ {0}

\* C16 as amended: on an acyclic input the list returned by _topological_sort
\* holds every node that has an incoming edge exactly once, and no node without
\* incoming edges: neither the dummy root nor a token node that has no head.
C16_EveryNodeWithHead ==
    (pc = "sorted" /\ ~HasCycle(Graph)) =>
        /\ NoDuplicates(sorted)
        /\ Range(sorted) = {n \in Range(dep_nodes) : incoming[n] # <<>>}

\* an acyclic input was sorted in which a token has no incoming edge and is
\* left out, while a token that it heads is in the list
C16_Witness ==
    /\ pc = "sorted"
    /\ ~HasCycle(Graph)
    /\ \E n \in Range(dep_nodes) \ {0} :
         /\ incoming[n] = <<>>
         /\ n \notin Range(sorted)
         /\ \E m \in Range(sorted) : n \in HeadsOf(Graph, m)

\* ------------------------------------------------------------ claims on find_head_child
\* the place of a label in the priority list: its first occurrence, or the
\* place of the closing None, which every label matches
Rank(tags, tag) ==
    CHOOSE i \in 1..Len(tags) :
        /\ tags[i] = tag \/ tags[i] = NoneStr
        /\ \A j \in 1..(i - 1) : ~(tags[j] = tag \/ tags[j] = NoneStr)

Primary(u) == {i \in 1..Len(u) : ~u[i].remote /\ ~u[i].implicit}

\* the child returned has the best rank among the primary edges
BestRank ==
    /\ head_child \in Primary(unit)
    /\ \A i \in Primary(unit) :
         Rank(priority_list(tag_priority), unit[head_child].tag)
            <= Rank(priority_list(tag_priority), unit[i].tag)

\* the unit's primary edges are one Center edge and one Elaborator edge
CenterAndElaborator ==
    /\ Cardinality(Primary(unit)) = 2
    /\ \E i, j \in Primary(unit) : unit[i].tag = Center /\ unit[j].tag = Elaborator

\* C7 as stated: find_head_child returns the child of a primary edge of best
\* rank, and for a unit with one Center child and one Elaborator child it
\* returns the Center child in either order of the edges.
C7_CenterAlways ==
    pc = "head_child" =>
        /\ BestRank
        /\ CenterAndElaborator => unit[head_child].tag = Center

\* C7 as amended: find_head_child returns the child of a primary edge of best
\* rank, and in either order of the edges the Center child of a unit with one
\* Center child and one Elaborator child, unless the configured tags put
\* Elaborator ahead of Center.
C7_BestRank ==
    pc = "head_child" =>
        /\ BestRank
        /\ (CenterAndElaborator
              /\ Rank(priority_list(tag_priority), Center)
                    < Rank(priority_list(tag_priority), Elaborator)) =>
                unit[head_child].tag = Center

\* the Center child was returned though the Elaborator edge comes first
C7_Witness ==
    /\ pc = "head_child"
    /\ CenterAndElaborator
    /\ unit[head_child].tag = Center
    /\ \E j \in 1..(head_child - 1) : unit[j].tag = Elaborator /\ j \in Primary(unit)

\* ------------------------------------------------------------ claims on parent_multi_word
\* the terminals i..j are a maximal run of one multi-word text
MaximalRun(i, j) ==
    /\ extra[i] # NoneStr
    /\ \A k \in i..j : extra[k] = extra[i]
    /\ i = 1 \/ extra[i - 1] # extra[i]
    /\ j = Len(extra) \/ extra[j + 1] # extra[i]

\* C10: after parent_multi_word has been called for every terminal in ascending
\* position with one shared cell, the terminals of every maximal run of one
\* multi-word text got one and the same multi-word Node, whose span is
\* [position of the first, position of the last]; a terminal without the text
\* got None.
C10_RunsShareNode ==
    (pc = "words" /\ Len(parent_mw) = Len(extra)) =>
        /\ \A i \in 1..Len(extra) : extra[i] = NoneStr => parent_mw[i] = None
        /\ \A i \in 1..Len(extra) : \A j \in i..Len(extra) :
             MaximalRun(i, j) =>
                /\ parent_mw[i] # None
                /\ \A k \in i..j : parent_mw[k] = parent_mw[i]
                /\ mw_nodes[parent_mw[i]].span = <<i, j>>
                /\ mw_nodes[parent_mw[i]].text = extra[i]

\* two runs, of which the first has several terminals, and a terminal without
\* multi-word text
C10_Witness ==
    /\ pc = "words"
    /\ Len(parent_mw) = Len(extra)
    /\ Len(mw_nodes) >= 2
    /\ \E m \in 1..Len(mw_nodes) : mw_nodes[m].span[1] < mw_nodes[m].span[2]
    /\ \E i \in 1..Len(extra) : extra[i] = NoneStr

\* ------------------------------------------------------------ claims on _link_heads
\* the heads of the last call of _link_heads: the nodes flagged is_head
LinkedHeads == SelectSeq(linked.nodes, LAMBDA n : linked.is_head[n])

\* the edges the last call of _link_heads met, in the order of its loops
LinkedEdges == IncomingOf(linked.pre, linked.nodes)

\* the head index that the edge had when _link_heads was called
IndexOf(e) == linked.pre.edges[e].head_index

\* the index is below 0 or at least the number of heads
OutOfRange(e) == IndexOf(e) < 0 \/ IndexOf(e) >= Len(LinkedHeads)

\* C11: _link_heads raises, and links no head for that edge, whenever an
\* incoming edge's head index is below 0 or at least the number of nodes
\* flagged is_head; otherwise every edge's head is the is_head node at its index.
C11_OutOfRangeFails ==
    (linked.called /\ linked.nodes # <<>>) =>
        /\ linked.raised <=> \E e \in Range(LinkedEdges) : OutOfRange(e)
        /\ \A e \in Range(LinkedEdges) :
             OutOfRange(e) => linked.post.edges[e].head = None
        /\ ~linked.raised =>
             \A e \in Range(LinkedEdges) :
                linked.post.edges[e].head = LinkedHeads[IndexOf(e) + 1]

\* ------------------------------------------------------------ claims on generate_graphs
\* the sentences whose _graph() returned, in input order
RECURSIVE Linkable(_, _)
Linkable(ok, i) ==
    IF i > Len(ok) THEN <<>>
    ELSE (IF ok[i] THEN <<i>> ELSE <<>>) \o Linkable(ok, i + 1)

\* C12: with split set, a sentence whose head linking fails yields no graph and
\* does not make the generator raise, wherever it stands in the input, and
\* every other sentence yields its graph in input order.
C12_SkipsFailedSentence ==
    split =>
        /\ pc # "generator_raised"
        /\ yielded = Linkable(linked_ok, 1)

====
